---------------------------- MODULE Spec2Model ----------------------------
(***************************************************************************)
(* Tool execution platform: the registry, the run endpoint (input          *)
(* normalisation, tool invocation, response shaping), the system           *)
(* endpoints, the exception handlers and the file service.                 *)
(*                                                                         *)
(* Conventions of the encoding                                             *)
(*   - a Python dict is a function whose domain is a set of strings;       *)
(*   - a Python str that the code only passes around is a record           *)
(*     [lit |-> s]; a storage path is a record [dir, sub, name];           *)
(*   - a file name that the code inspects character by character is a      *)
(*     sequence of one-character strings;                                  *)
(*   - a formatted message f"...{x}" is the pair <<format, x>>;            *)
(*   - the response of a request is the document its handler returns.      *)
(***************************************************************************)
EXTENDS Integers, Sequences, FiniteSets, TLC

VARIABLES
    TOOLS,      \* the registry: the tools in registration order
    req,        \* per client: the request it has in flight
    storage     \* the files under TEMP_DIR: path -> content

vars == <<TOOLS, req, storage>>

-----------------------------------------------------------------------------
(* Bounds of the model *)

MaxParts == 2       \* parts of a multipart body
NumClients == 2     \* clients with a request in flight at the same time

Clients == 1..NumClients

-----------------------------------------------------------------------------
(* core/config.py *)

MAX_FILE_SIZE == 10 * 1024 * 1024
TEMP_DIR == "/tmp/tool-execution"

-----------------------------------------------------------------------------
(* Python values *)

EmptyDict == <<>>
Bind(d, k, v) == [x \in (DOMAIN d) \cup {k} |-> IF x = k THEN v ELSE d[x]]
Pop(d, k) == [x \in (DOMAIN d) \ {k} |-> d[x]]

Lit(s) == [lit |-> s]
IsLit(v) == DOMAIN v = {"lit"}
\* bool(v) of a str: only the empty string is falsy; a path is never empty
Truthy(v) == v # Lit("")

Msg(fmt, arg) == <<fmt, arg>>
NoMsg == Msg("", "")

-----------------------------------------------------------------------------
(* core/exceptions.py: the classes and their base classes *)

ToolExecutionSubclasses ==
    {"ToolNotFoundException", "InvalidInputException",
     "FileProcessingException", "ToolValidationException"}

\* isinstance(e, cls), for the classes the code catches
IsInstance(e, cls) ==
    \/ e.class = cls
    \/ cls = "ToolExecutionException" /\ e.class \in ToolExecutionSubclasses
    \/ cls = "Exception"

\* ToolExecutionException.__init__(message), and the other exceptions raised
Raise(cls, message) == [class |-> cls, message |-> message, status_code |-> 0]
HTTPException(status_code, detail) ==
    [class |-> "HTTPException", message |-> detail, status_code |-> status_code]
NoException == [class |-> "none", message |-> NoMsg, status_code |-> 0]

-----------------------------------------------------------------------------
(* Responses *)

NoPath == [dir |-> "", sub |-> "", name |-> <<>>]
NoResult == [shape |-> "none", path |-> NoPath, filename |-> <<>>, extra |-> ""]

NoResponse ==
    [kind |-> "none", status_code |-> 0, error |-> NoMsg, data |-> NoResult,
     path |-> NoPath, filename |-> <<>>, media_type |-> "", extension |-> <<>>,
     doc |-> EmptyDict]

ErrorResponse(error, status_code) ==
    [NoResponse EXCEPT !.kind = "error", !.error = error,
                       !.status_code = status_code]

\* a handler's plain document, answered with the default success status
DocResponse(doc) ==
    [NoResponse EXCEPT !.kind = "doc", !.status_code = 200, !.doc = doc]

-----------------------------------------------------------------------------
(* main.py: register_exception_handlers.  The handler of the most specific *)
(* registered class of the exception answers.                              *)

tool_not_found_handler(exc) == ErrorResponse(exc.message, 404)
tool_execution_handler(exc) == ErrorResponse(exc.message, 500)
http_exception_handler(exc) == ErrorResponse(exc.message, exc.status_code)
general_exception_handler(exc) ==
    ErrorResponse(Msg("An unexpected error occurred", ""), 500)

\* a faulty lookup that consults the base class before its subclasses
HandleException_BaseFirst(exc) ==
    IF IsInstance(exc, "ToolExecutionException")
    THEN tool_execution_handler(exc)
    ELSE IF exc.class = "HTTPException" THEN http_exception_handler(exc)
    ELSE general_exception_handler(exc)

HandleException(exc) ==
    IF exc.class = "ToolNotFoundException" THEN tool_not_found_handler(exc)
    ELSE IF IsInstance(exc, "ToolExecutionException")
        THEN tool_execution_handler(exc)
    ELSE IF exc.class = "HTTPException" THEN http_exception_handler(exc)
    ELSE general_exception_handler(exc)

-----------------------------------------------------------------------------
(* services/file_service.py *)

WordChars ==
    {"a", "b", "c", "d", "e", "f", "g", "i", "l", "n", "o", "p", "q", "r",
     "u", "v", "x", "A", "G", "N", "P", "0", "1", "2", "_"}

\* str.replace("..", ""): occurrences are removed left to right, once
RECURSIVE ReplaceDotDot(_)
ReplaceDotDot(s) ==
    IF Len(s) < 2 THEN s
    ELSE IF s[1] = "." /\ s[2] = "." THEN ReplaceDotDot(SubSeq(s, 3, Len(s)))
    ELSE <<s[1]>> \o ReplaceDotDot(Tail(s))

NotSeparator(c) == c \notin {"\\", "/"}
SafeChar(c) == c \in WordChars \cup {"-", "."}

\* clean_filename: [exc, name]
clean_filename(filename) ==
    IF filename = <<>>
    THEN [exc |-> Raise("FileProcessingException",
                        Msg("Filename cannot be empty", "")),
          name |-> <<>>]
    ELSE LET noSep == SelectSeq(filename, NotSeparator)
             noDots == ReplaceDotDot(noSep)
             safe_filename == SelectSeq(noDots, SafeChar)
         IN  IF safe_filename = <<>>
             THEN [exc |-> Raise("FileProcessingException",
                                 Msg("Filename contains no valid characters", "")),
                   name |-> <<>>]
             ELSE [exc |-> NoException, name |-> safe_filename]

\* a faulty size check that rejects content of exactly the maximum size
validate_file_size_Strict(file_size) ==
    IF file_size >= MAX_FILE_SIZE
    THEN Raise("FileProcessingException",
               Msg("File size exceeds maximum of %sMB", "10.0"))
    ELSE NoException

\* validate_file_size: the exception raised, if any
validate_file_size(file_size) ==
    IF file_size > MAX_FILE_SIZE
    THEN Raise("FileProcessingException",
               Msg("File size exceeds maximum of %sMB", "10.0"))
    ELSE NoException

\* names that denote a directory wherever they are joined to one
DirectoryNames == {<<".">>, <<".", ".">>}

\* save_uploaded_file, up to the write: [exc, path].  The size is validated
\* before the name is cleaned; the file is written at path when exc is none.
\* write_bytes on a path that is a directory raises IsADirectoryError, which
\* the last except clause wraps
save_uploaded_file(file_content, original_filename, subfolder) ==
    LET sizeExc == validate_file_size(file_content.size)
        cleaned == clean_filename(original_filename)
    IN  IF sizeExc # NoException THEN [exc |-> sizeExc, path |-> NoPath]
        ELSE IF cleaned.exc # NoException
            THEN [exc |-> cleaned.exc, path |-> NoPath]
        ELSE IF cleaned.name \in DirectoryNames
            THEN [exc |-> Raise("FileProcessingException",
                                Msg("Failed to save file: %s", "Is a directory")),
                  path |-> NoPath]
        ELSE [exc |-> NoException,
              path |-> [dir |-> TEMP_DIR, sub |-> subfolder,
                        name |-> cleaned.name]]

\* Path.write_bytes(content): the file is created or replaced
WriteBytes(files, path, content) == Bind(files, path, content)

\* generate_output_path: [exc, path, filename]
generate_output_path(tool_name, filename, extension) ==
    LET cleaned == clean_filename(filename)
        ext == IF extension # <<>> /\ extension[1] # "."
               THEN <<".">> \o extension ELSE extension
        filename_with_ext == cleaned.name \o ext
    IN  IF cleaned.exc # NoException
        THEN [exc |-> cleaned.exc, path |-> NoPath, filename |-> <<>>]
        ELSE [exc |-> NoException,
              path |-> [dir |-> TEMP_DIR, sub |-> tool_name,
                        name |-> filename_with_ext],
              filename |-> filename_with_ext]

-----------------------------------------------------------------------------
(* Tool results and what a run can do *)

PairResult(path, filename) ==
    [shape |-> "pair", path |-> path, filename |-> filename, extra |-> ""]
\* results of other shapes: a single str, a 3-tuple, a JSON value
OtherResult(shape, extra) == [NoResult EXCEPT !.shape = shape, !.extra = extra]

\* one way a call of run can end: it raised exc, or returned result after
\* writing the file named by written (NoPath: nothing written)
Raised(exc) == [exc |-> exc, result |-> NoResult, written |-> NoPath]
Returned(result, written) ==
    [exc |-> NoException, result |-> result, written |-> written]

\* str(e) of the exceptions the codec libraries and the filesystem raise
\* inside a tool: the texts differ with the cause
Causes == {"codec error text", "OSError text naming a path under TEMP_DIR"}

\* len() of the str values of the model
StrLen(v) == IF v = Lit("") THEN 0 ELSE 5

-----------------------------------------------------------------------------
(* tools/qr_generator *)

\* hash(data) % 10000000, as a digit string: a function of data alone
QrHash(data) == IF IsLit(data) /\ data.lit = "hello" THEN <<"1">> ELSE <<"2">>

\* QRGeneratorInput(**kwargs): data is required, a str of 1..2953 characters
QRGeneratorInputValid(kwargs) ==
    /\ "data" \in DOMAIN kwargs
    /\ StrLen(kwargs["data"]) >= 1
    /\ StrLen(kwargs["data"]) <= 2953

\* generate_qr_code(data) when nothing fails: the image is saved at the
\* allocated path, the name returned is the one without the added extension
generate_qr_code(data) ==
    LET filename == <<"q", "r", "_", "c", "o", "d", "e", "_">> \o QrHash(data)
                        \o <<".", "p", "n", "g">>
        out == generate_output_path("qr_generator", filename,
                                    <<".", "p", "n", "g">>)
    IN  IF out.exc # NoException THEN Raised(out.exc)
        ELSE Returned(PairResult(out.path, filename), out.path)

\* QRGeneratorTool.run
QRGeneratorTool_run(kwargs) ==
    IF ~QRGeneratorInputValid(kwargs)
    THEN {Raised(Raise("InvalidInputException", Msg("Invalid input: %s", "data")))}
    ELSE {generate_qr_code(kwargs["data"])}
         \cup {Raised(Raise("ToolExecutionException",
                            Msg("Failed to generate QR code: %s", c))) : c \in Causes}

-----------------------------------------------------------------------------
(* tools/image_converter *)

ALLOWED_IMAGE_FORMATS == {"png", "jpg", "jpeg", "webp", "gif", "bmp"}

\* ImageConverterInput(**kwargs): target_format is required and matches
\* ^(png|jpg|jpeg|webp|gif|bmp)$; quality defaults to 85
ImageConverterInputValid(kwargs) ==
    /\ "target_format" \in DOMAIN kwargs
    /\ IsLit(kwargs["target_format"])
    /\ kwargs["target_format"].lit \in {"png", "jpg", "jpeg", "webp", "gif", "bmp"}

\* convert_image(input_path, ...): input_path is the str the dispatcher
\* bound, and input_path.file raises AttributeError
convert_image(input_path, target_format) ==
    IF target_format.lit \notin ALLOWED_IMAGE_FORMATS
    THEN Raise("ValueError", Msg("Format %s not allowed", target_format.lit))
    ELSE Raise("AttributeError", Msg("'str' object has no attribute 'file'", ""))

\* ImageConverterTool.run
ImageConverterTool_run(kwargs) ==
    LET has == "image_file_path" \in DOMAIN kwargs
        rest == Pop(kwargs, "image_file_path")
    IN  IF ~has \/ ~Truthy(kwargs["image_file_path"])
        THEN {Raised(Raise("ToolExecutionException",
                           Msg("No image file provided", "")))}
        ELSE IF ~ImageConverterInputValid(rest)
        THEN {Raised(Raise("InvalidInputException",
                           Msg("Invalid input: %s", "target_format")))}
        ELSE {Raised(Raise("ToolExecutionException",
                Msg("Failed to convert image: %s",
                    convert_image(kwargs["image_file_path"],
                                  rest["target_format"]).message[1])))}

-----------------------------------------------------------------------------
(* tools/image_compressor *)

\* ImageCompressorInput(**kwargs): image_file_path, when given, must be an
\* UploadFile; the dispatcher binds str values only.  quality defaults to 75
ImageCompressorInputValid(kwargs) == "image_file_path" \notin DOMAIN kwargs

\* compress_image(input_path, quality): input_path.file raises AttributeError
compress_image(input_path) ==
    Raise("AttributeError", Msg("'str' object has no attribute 'file'", ""))

\* ImageCompressorTool.run
ImageCompressorTool_run(kwargs) ==
    IF "image_file_path" \notin DOMAIN kwargs \/ ~Truthy(kwargs["image_file_path"])
    THEN {Raised(Raise("ToolExecutionException",
                       Msg("No image file provided", "")))}
    ELSE IF ~ImageCompressorInputValid(kwargs)
    THEN {Raised(Raise("InvalidInputException",
                       Msg("Invalid input: %s", "image_file_path")))}
    ELSE {Raised(Raise("ToolExecutionException",
            Msg("Failed to compress image: %s",
                compress_image(kwargs["image_file_path"]).message[1])))}

-----------------------------------------------------------------------------
(* core/base_tool.py *)

\* BaseTool.run is abstract: a tool written against it may return a value
\* of any shape or raise any exception
PluginPath == [dir |-> TEMP_DIR, sub |-> "plugin", name |-> <<"o", ".", "p", "n", "g">>]

\* display names a file tool may return with its path
DisplayNames ==
    {<<"o", ".", "p", "n", "g">>, <<"A", ".", "P", "N", "G">>,
     <<"a", ".", "j", "p", "g">>, <<"a", ".", "J", "p", "E", "g">>,
     <<"a", ".", "g", "i", "f">>, <<"a", ".", "w", "e", "b", "p">>,
     <<"a", ".", "b", "m", "p">>, <<"a", ".", "p", "d", "f">>,
     <<"a", ".", "j", "s", "o", "n">>, <<"a", ".", "t", "x", "t">>,
     <<"a", ".", "c", "s", "v">>, <<"a", ".", "z", "i", "p">>,
     <<"a", ".", "p", "n", "g", ".", "g", "z">>, <<"a", ".", "e", "x", "e">>,
     <<"a", ".", "z", "i", "p", ".", "t", "x", "t">>,
     <<"p", "n", "g">>, <<".", "p", "n", "g">>, <<"a", ".">>,
     <<"d", ".", "p", "n", "g", "/", "a">>}

BaseTool_run(kwargs) ==
    {Returned(PairResult(PluginPath, n), NoPath) : n \in DisplayNames}
    \cup
    {Returned(OtherResult("str", "/tmp/tool-execution/plugin/o.png"), NoPath),
     Returned(OtherResult("triple", "/tmp/tool-execution/plugin/o.png"), NoPath),
     Returned(OtherResult("json", "value"), NoPath)}
    \cup {Raised(Raise(cls, Msg("plugin failure: %s", c))) :
            cls \in ToolExecutionSubclasses
                        \cup {"ToolExecutionException", "ValueError"},
            c \in Causes}

\* a faulty constructor that validates nothing
BaseTool_init_Unchecked(t) == TRUE

\* BaseTool.__init__: construction succeeds when the attributes are defined
\* and truthy (an attribute left undefined is the empty value here) and
\* output_type is one of the two recognized values
BaseTool_init_ok(t) ==
    /\ t.name # ""
    /\ t.description # ""
    /\ t.version # ""
    /\ t.input_schema # EmptyDict
    /\ t.output_type \in {"json", "file"}

\* BaseTool.get_metadata
get_metadata(t) ==
    [name |-> t.name, description |-> t.description, version |-> t.version,
     input_schema |-> t.input_schema, output_type |-> t.output_type]

-----------------------------------------------------------------------------
(* core/tool_registry.py *)

QRGeneratorTool ==
    [key |-> "qr-generator", class |-> "QRGeneratorTool",
     name |-> "qr-generator",
     description |-> "Generate a QR code from text data",
     version |-> "1.0.0",
     input_schema |-> [properties |-> {"data"}, required |-> {"data"}],
     output_type |-> "file"]

ImageConverterTool ==
    [key |-> "image-converter", class |-> "ImageConverterTool",
     name |-> "image-converter",
     description |-> "Convert images between different formats",
     version |-> "1.0.0",
     input_schema |->
        [properties |-> {"image_file_path", "target_format", "quality"},
         required |-> {"image_file_path", "target_format"}],
     output_type |-> "file"]

ImageCompressorTool ==
    [key |-> "image-compressor", class |-> "ImageCompressorTool",
     name |-> "image-compressor",
     description |->
        "Compress images to reduce file size while maintaining quality",
     version |-> "1.0.0",
     input_schema |-> [properties |-> {"image_file_path", "quality"},
                       required |-> {"image_file_path"}],
     output_type |-> "file"]

\* the TOOLS dictionary, in insertion order
RegisteredTools == <<QRGeneratorTool, ImageConverterTool, ImageCompressorTool>>

\* tools added the way the registry's module comment describes: a class
\* inheriting from BaseTool, of either output type
PluginTool(output_type) ==
    [key |-> "plugin-" \o output_type, class |-> "BaseTool",
     name |-> "plugin-" \o output_type,
     description |-> "A tool written against BaseTool",
     version |-> "1.0.0",
     input_schema |-> [properties |-> {"data"}, required |-> {}],
     output_type |-> output_type]

tool_exists(tools, tool_name) ==
    \E i \in DOMAIN tools : tools[i].key = tool_name

\* a faulty lookup that returns the first registered tool for every name
get_tool_First(tools, tool_name) ==
    IF ~tool_exists(tools, tool_name)
    THEN [exc |-> Raise("KeyError", Msg("Tool '%s' not found", tool_name)),
          tool |-> QRGeneratorTool]
    ELSE [exc |-> NoException, tool |-> tools[1]]

\* get_tool: [exc, tool]
get_tool(tools, tool_name) ==
    IF ~tool_exists(tools, tool_name)
    THEN [exc |-> Raise("KeyError", Msg("Tool '%s' not found", tool_name)),
          tool |-> QRGeneratorTool]
    ELSE [exc |-> NoException,
          tool |-> tools[CHOOSE i \in DOMAIN tools : tools[i].key = tool_name]]

list_tools(tools) == [i \in DOMAIN tools |-> get_metadata(tools[i])]

\* tool.run(**kwargs), by the class of the tool
ToolRun(tool, kwargs) ==
    CASE tool.class = "QRGeneratorTool" -> QRGeneratorTool_run(kwargs)
      [] tool.class = "ImageConverterTool" -> ImageConverterTool_run(kwargs)
      [] tool.class = "ImageCompressorTool" -> ImageCompressorTool_run(kwargs)
      [] OTHER -> BaseTool_run(kwargs)

-----------------------------------------------------------------------------
(* api/routes_tools.py: get_media_type_and_extension *)

MaxOf(S) == CHOOSE m \in S : \A n \in S : n <= m

\* Path(filename).name: what follows the last separator
PathName(filename) ==
    LET seps == {i \in 1..Len(filename) : filename[i] = "/"}
    IN  IF seps = {} THEN filename
        ELSE SubSeq(filename, MaxOf(seps) + 1, Len(filename))

\* Path(filename).suffix: from the last dot of the name, unless that dot
\* opens or closes the name
PathSuffix(filename) ==
    LET name == PathName(filename)
        dots == {i \in 1..Len(name) : name[i] = "."}
    IN  IF dots = {} THEN <<>>
        ELSE IF MaxOf(dots) > 1 /\ MaxOf(dots) < Len(name)
            THEN SubSeq(name, MaxOf(dots), Len(name))
        ELSE <<>>

\* a faulty lower-casing that leaves the extension as it is written
Lower_AsWritten(s) == s

LowerChar(c) ==
    CASE c = "A" -> "a" [] c = "E" -> "e" [] c = "G" -> "g" [] c = "J" -> "j"
      [] c = "N" -> "n" [] c = "P" -> "p"
      [] OTHER -> c

Lower(s) == [i \in 1..Len(s) |-> LowerChar(s[i])]

MEDIA_TYPES(extension) ==
    CASE extension = <<".", "p", "n", "g">> -> "image/png"
      [] extension = <<".", "j", "p", "g">> -> "image/jpeg"
      [] extension = <<".", "j", "p", "e", "g">> -> "image/jpeg"
      [] extension = <<".", "g", "i", "f">> -> "image/gif"
      [] extension = <<".", "w", "e", "b", "p">> -> "image/webp"
      [] extension = <<".", "b", "m", "p">> -> "image/bmp"
      [] extension = <<".", "p", "d", "f">> -> "application/pdf"
      [] extension = <<".", "j", "s", "o", "n">> -> "application/json"
      [] extension = <<".", "t", "x", "t">> -> "text/plain"
      [] extension = <<".", "c", "s", "v">> -> "text/csv"
      [] extension = <<".", "z", "i", "p">> -> "application/zip"
      [] OTHER -> "application/octet-stream"

\* [media_type, extension]
get_media_type_and_extension(filename) ==
    LET extension == Lower(PathSuffix(filename))
    IN  [media_type |-> MEDIA_TYPES(extension), extension |-> extension]

FileResponse(path, filename, media_type, extension) ==
    [NoResponse EXCEPT !.kind = "file", !.status_code = 200, !.path = path,
                       !.filename = filename, !.media_type = media_type,
                       !.extension = extension]

\* {"data": result}
JsonResponse(result) ==
    [NoResponse EXCEPT !.kind = "json", !.status_code = 200, !.data = result]

-----------------------------------------------------------------------------
(* Requests *)

NoBody == [kind |-> "none", doc |-> EmptyDict, parts |-> <<>>]
JsonBody(doc) == [kind |-> "json", doc |-> doc, parts |-> <<>>]
\* a JSON document that is not an object (an array, a string, null)
JsonArrayBody == [kind |-> "json_array", doc |-> EmptyDict, parts |-> <<>>]
\* bytes that are neither JSON nor a multipart form
GarbageBody == [kind |-> "garbage", doc |-> EmptyDict, parts |-> <<>>]
MultipartBody(parts) == [kind |-> "multipart", doc |-> EmptyDict, parts |-> parts]

FilePart(name, filename, size) ==
    [name |-> name, is_file |-> TRUE, filename |-> filename, size |-> size,
     value |-> Lit("")]
FieldPart(name, value) ==
    [name |-> name, is_file |-> FALSE, filename |-> <<>>, size |-> 0,
     value |-> value]

Idle ==
    [pc |-> "idle", endpoint |-> "", tool_name |-> "", content_type |-> <<>>,
     body |-> NoBody, input_data |-> EmptyDict, idx |-> 0, bound |-> <<>>,
     saves |-> 0, stored |-> {}, runs |-> 0, run_kwargs |-> EmptyDict,
     run_raised |-> NoException, result |-> NoResult,
     raised |-> NoException, response |-> NoResponse]

\* a faulty header read that takes an absent header for application/json
HeaderContains_DefaultJson(content_type, x) ==
    IF content_type = <<>> THEN x = "application/json"
    ELSE \E i \in DOMAIN content_type : content_type[i] = x

\* the values of a header that holds a media type and its parameters;
\* "x in content_type" is true when x is one of them
HeaderContains(content_type, x) ==
    \E i \in DOMAIN content_type : content_type[i] = x

\* the request is answered: by a response, or by the handler of what the
\* endpoint raised
Answer(q, response) == [q EXCEPT !.pc = "done", !.response = response]
\* a faulty failure path that starts the request over instead of answering
Fail_Retry(q, exc) == [q EXCEPT !.pc = "received"]
Fail(q, exc) ==
    [q EXCEPT !.pc = "done", !.raised = exc, !.response = HandleException(exc)]

-----------------------------------------------------------------------------
(* api/routes_system.py *)

HealthCheck(r) ==
    /\ req[r].pc = "received"
    /\ req[r].endpoint = "health"
    /\ req' = [req EXCEPT ![r] = Answer(@, DocResponse([status |-> "ok"]))]
    /\ UNCHANGED <<TOOLS, storage>>

\* a faulty listing that consumes the registry entry it lists first
ListAllTools_Consuming(r) ==
    /\ req[r].pc = "received"
    /\ req[r].endpoint = "list"
    /\ req' = [req EXCEPT ![r] =
                 Answer(@, DocResponse([tools |-> list_tools(TOOLS),
                                        count |-> Len(list_tools(TOOLS))]))]
    /\ TOOLS' = IF TOOLS = <<>> THEN TOOLS ELSE Tail(TOOLS)
    /\ UNCHANGED storage

ListAllTools(r) ==
    /\ req[r].pc = "received"
    /\ req[r].endpoint = "list"
    /\ req' = [req EXCEPT ![r] =
                 Answer(@, DocResponse([tools |-> list_tools(TOOLS),
                                        count |-> Len(list_tools(TOOLS))]))]
    /\ UNCHANGED <<TOOLS, storage>>

GetToolMetadata(r) ==
    /\ req[r].pc = "received"
    /\ req[r].endpoint = "metadata"
    /\ req' = [req EXCEPT ![r] =
                 IF ~tool_exists(TOOLS, @.tool_name)
                 THEN Fail(@, Raise("ToolNotFoundException",
                                    Msg("Tool '%s' not found", @.tool_name)))
                 ELSE Answer(@, DocResponse(
                        get_metadata(get_tool(TOOLS, @.tool_name).tool)))]
    /\ UNCHANGED <<TOOLS, storage>>

-----------------------------------------------------------------------------
(* api/routes_tools.py: run_tool *)

\* form_data.items(): one item per part name, in the order the names first
\* appear, holding the last part of that name
RECURSIVE ItemsFrom(_, _)
ItemsFrom(parts, i) ==
    IF i > Len(parts) THEN <<>>
    ELSE LET same == {j \in 1..Len(parts) : parts[j].name = parts[i].name}
         IN  (IF \A j \in same : j >= i THEN <<parts[MaxOf(same)]>> ELSE <<>>)
                \o ItemsFrom(parts, i + 1)

FormItems(parts) == ItemsFrom(parts, 1)

\* value.filename or "uploaded_file"
UploadName(filename) ==
    IF filename = <<>>
    THEN <<"u", "p", "l", "o", "a", "d", "e", "d", "_", "f", "i", "l", "e">>
    ELSE filename

\* a faulty key that binds a file part under its bare name
FilePathKey_Bare(key) == key

\* f"{key}_file_path"
FilePathKey(key) == key \o "_file_path"

\* a faulty renaming that copies file_file_path and leaves it in place
RenameFilePath_Copy(input_data) ==
    IF "image_file_path" \in DOMAIN input_data THEN input_data
    ELSE IF "file_file_path" \in DOMAIN input_data
        THEN Bind(input_data, "image_file_path", input_data["file_file_path"])
    ELSE input_data

\* the renaming of file_file_path that closes the multipart branch
RenameFilePath(input_data) ==
    IF "image_file_path" \in DOMAIN input_data THEN input_data
    ELSE IF "file_file_path" \in DOMAIN input_data
        THEN Bind(Pop(input_data, "file_file_path"), "image_file_path",
                  input_data["file_file_path"])
    ELSE input_data

\* a faulty opening of run_tool that lets every tool name through
CheckTool_Unchecked(r) ==
    /\ req[r].pc = "received"
    /\ req[r].endpoint = "run"
    /\ req' = [req EXCEPT ![r] = [@ EXCEPT !.pc = "normalize"]]
    /\ UNCHANGED <<TOOLS, storage>>

\* the existence check that opens run_tool
CheckTool(r) ==
    /\ req[r].pc = "received"
    /\ req[r].endpoint = "run"
    /\ req' = [req EXCEPT ![r] =
                 IF ~tool_exists(TOOLS, @.tool_name)
                 THEN Fail(@, Raise("ToolNotFoundException",
                                    Msg("Tool '%s' not found", @.tool_name)))
                 ELSE [@ EXCEPT !.pc = "normalize"]]
    /\ UNCHANGED <<TOOLS, storage>>

\* a faulty JSON branch that applies the multipart renaming to the document
JsonInput_Renamed(body) ==
    IF body.kind = "json"
    THEN [exc |-> NoException, input_data |-> RenameFilePath(body.doc)]
    ELSE IF body.kind = "json_array"
        THEN [exc |-> Raise("AttributeError",
                            Msg("'%s' object has no attribute 'keys'", "list")),
              input_data |-> EmptyDict]
    ELSE [exc |-> Raise("JSONDecodeError", Msg("Expecting value", "")),
          input_data |-> EmptyDict]

\* await request.json() and the read of input_data.keys(): [exc, input_data].
\* A body that is no JSON raises in json(); a document that is no object has
\* no keys()
JsonInput(body) ==
    IF body.kind = "json" THEN [exc |-> NoException, input_data |-> body.doc]
    ELSE IF body.kind = "json_array"
        THEN [exc |-> Raise("AttributeError",
                            Msg("'%s' object has no attribute 'keys'", "list")),
              input_data |-> EmptyDict]
    ELSE [exc |-> Raise("JSONDecodeError", Msg("Expecting value", "")),
          input_data |-> EmptyDict]

\* await request.form(): the exceptions it can raise on a body that is no
\* multipart form (the framework's own HTTPException, or the parser's error)
FormErrors ==
    {HTTPException(400, Msg("%s", "multipart parse error")),
     Raise("MultipartParseError", Msg("%s", "multipart parse error"))}

\* faulty except clauses that turn every exception of the parsing, the
\* HTTPException of a failed upload included, into the parse error
ParseExceptionToHTTP_Blanket(e) ==
    HTTPException(400, Msg("Failed to parse request", ""))

\* the except clauses around the parsing
ParseExceptionToHTTP(e) ==
    IF e.class = "HTTPException" THEN e
    ELSE HTTPException(400, Msg("Failed to parse request", ""))

\* the branch on the content type, once the body has been received
Normalize(r) ==
    LET q == req[r] IN
    /\ q.pc = "normalize"
    /\ IF HeaderContains(q.content_type, "application/json")
       THEN req' = [req EXCEPT ![r] =
                      IF JsonInput(q.body).exc = NoException
                      THEN [@ EXCEPT !.pc = "execute",
                                     !.input_data = JsonInput(q.body).input_data]
                      ELSE Fail(@, ParseExceptionToHTTP(JsonInput(q.body).exc))]
       ELSE IF HeaderContains(q.content_type, "multipart/form-data")
       THEN IF q.body.kind = "multipart"
            THEN req' = [req EXCEPT ![r] =
                           IF FormItems(q.body.parts) = <<>>
                           THEN [@ EXCEPT !.pc = "execute",
                                          !.input_data = RenameFilePath(EmptyDict)]
                           ELSE [@ EXCEPT !.pc = "parts", !.idx = 1]]
            ELSE \E exc \in FormErrors :
                    req' = [req EXCEPT ![r] = Fail(@, ParseExceptionToHTTP(exc))]
       ELSE req' = [req EXCEPT ![r] =
                      Fail(@, ParseExceptionToHTTP(HTTPException(400,
                        Msg("Content-Type must be application/json or multipart/form-data",
                            ""))))]
    /\ UNCHANGED <<TOOLS, storage>>

\* one turn of the loop over the form items; the turn of the last item
\* runs on to the renaming
ProcessPart(r) ==
    LET q == req[r]
        items == FormItems(q.body.parts)
        part == items[q.idx]
        content == [size |-> part.size, by |-> r]
        saved == save_uploaded_file(content, UploadName(part.filename), q.tool_name)
        key == IF part.is_file THEN FilePathKey(part.name) ELSE part.name
        value == IF part.is_file THEN saved.path ELSE part.value
        bound == Bind(q.input_data, key, value)
        last == q.idx = Len(items)
    IN
    /\ q.pc = "parts"
    /\ IF part.is_file /\ saved.exc # NoException
       THEN /\ req' = [req EXCEPT ![r] =
                        Fail([@ EXCEPT !.saves = @ + 1],
                             ParseExceptionToHTTP(
                                HTTPException(400, saved.exc.message)))]
            /\ UNCHANGED storage
       ELSE /\ req' = [req EXCEPT ![r] =
                        [@ EXCEPT !.pc = IF last THEN "execute" ELSE "parts",
                                  !.idx = IF last THEN @ ELSE @ + 1,
                                  !.saves = IF part.is_file THEN @ + 1 ELSE @,
                                  !.stored = IF part.is_file
                                             THEN @ \cup {saved.path} ELSE @,
                                  !.bound = Append(@, [key |-> key, value |-> value]),
                                  !.input_data =
                                      IF last THEN RenameFilePath(bound) ELSE bound]]
            /\ storage' = IF part.is_file
                          THEN WriteBytes(storage, saved.path, content)
                          ELSE storage
    /\ UNCHANGED TOOLS

\* the except clauses around tool.run
RunExceptionToHTTP(e) ==
    IF IsInstance(e, "InvalidInputException") THEN HTTPException(400, e.message)
    ELSE IF IsInstance(e, "FileProcessingException")
        THEN HTTPException(400, e.message)
    ELSE IF IsInstance(e, "ToolExecutionException")
        THEN HTTPException(500, e.message)
    ELSE HTTPException(500, Msg("Tool execution failed", ""))

\* a faulty test that accepts a tuple of any length
IsPair_AnyTuple(result) == result.shape \in {"pair", "triple"}

\* isinstance(result, tuple) and len(result) == 2
IsPair(result) == result.shape = "pair"

\* the branch on tool.output_type: [exc, response]
ShapeResult(tool, result) ==
    IF tool.output_type = "json"
    THEN [exc |-> NoException, response |-> JsonResponse(result)]
    ELSE IF tool.output_type = "file"
    THEN IF IsPair(result)
         THEN LET mt == get_media_type_and_extension(result.filename)
              IN  [exc |-> NoException,
                   response |-> FileResponse(result.path, result.filename,
                                             mt.media_type, mt.extension)]
         ELSE [exc |-> HTTPException(500, Msg("Invalid tool output", "")),
               response |-> NoResponse]
    ELSE [exc |-> HTTPException(500, Msg("Unknown output type", "")),
          response |-> NoResponse]

\* run(self, **kwargs) called as tool.run(**input_data): a key named self
\* collides with the bound instance and the call raises TypeError
CallBinds(input_data) == "self" \notin DOMAIN input_data

\* tool.run(**input_data) and the response made of what it returns
Execute(r) ==
    LET q == req[r]
        tool == get_tool(TOOLS, q.tool_name).tool
    IN
    /\ q.pc = "execute"
    /\ IF ~CallBinds(q.input_data)
       THEN /\ req' = [req EXCEPT ![r] =
                        Fail(@, RunExceptionToHTTP(
                                  Raise("TypeError",
                                        Msg("got multiple values for argument '%s'",
                                            "self"))))]
            /\ UNCHANGED storage
       ELSE \E o \in ToolRun(tool, q.input_data) :
              LET ran == [q EXCEPT !.runs = @ + 1, !.run_kwargs = q.input_data,
                                   !.run_raised = o.exc, !.result = o.result,
                                   !.stored = IF o.written # NoPath
                                              THEN @ \cup {o.written} ELSE @]
                  shaped == ShapeResult(tool, o.result)
              IN  /\ req' = [req EXCEPT ![r] =
                              IF o.exc # NoException
                              THEN Fail(ran, RunExceptionToHTTP(o.exc))
                              ELSE IF shaped.exc # NoException
                                  THEN Fail(ran, shaped.exc)
                              ELSE Answer(ran, shaped.response)]
                  /\ storage' = IF o.written # NoPath
                                THEN WriteBytes(storage, o.written,
                                                [size |-> 1, by |-> r])
                                ELSE storage
    /\ UNCHANGED TOOLS

-----------------------------------------------------------------------------
(* The requests a client can send *)

ContentTypes ==
    {<<>>, <<"application/json", "charset=utf-8">>,
     <<"multipart/form-data", "boundary=x">>, <<"text/plain">>}

\* the values a JSON document can give each key
JsonValues ==
    [data |-> {Lit("hello"), Lit("")},
     image_file_path |-> {Lit("in.png"), Lit("")},
     file_file_path |-> {Lit("x")},
     target_format |-> {Lit("png"), Lit("tiff")},
     self |-> {Lit("me")}]

DocsOver(values) ==
    UNION {{d \in [K -> UNION {values[k] : k \in K}] :
                \A k \in K : d[k] \in values[k]} : K \in SUBSET DOMAIN values}

JsonDocs == DocsOver(JsonValues)

Filenames == {<<"a", ".", "p", "n", "g">>, <<".", ".", "/">>, <<>>}

Parts ==
    {FilePart(n, f, z) : n \in {"file", "image"}, f \in Filenames,
                         z \in {MAX_FILE_SIZE, MAX_FILE_SIZE + 1}}
    \cup {FieldPart("image_file_path", Lit("x")),
          FieldPart("file_file_path", Lit("x")),
          FieldPart("target_format", Lit("png"))}

SeqsUpTo(S, n) == UNION {[1..k -> S] : k \in 0..n}

Bodies ==
    {JsonBody(d) : d \in JsonDocs} \cup {JsonArrayBody, GarbageBody}
    \cup {MultipartBody(ps) : ps \in SeqsUpTo(Parts, MaxParts)}

ToolNames(tools) == {tools[i].key : i \in DOMAIN tools} \cup {"no-such-tool"}

RunRequests(names, content_types, bodies) ==
    [endpoint : {"run"}, tool_name : names, content_type : content_types,
     body : bodies]

SystemRequests(names) ==
    [endpoint : {"health", "list"}, tool_name : {""}, content_type : {<<>>},
     body : {NoBody}]
    \cup [endpoint : {"metadata"}, tool_name : names, content_type : {<<>>},
          body : {NoBody}]

AllRequests(tools) ==
    RunRequests(ToolNames(tools), ContentTypes, Bodies)
    \cup SystemRequests(ToolNames(tools))

\* a request arrives
Receive(r, requests) ==
    /\ req[r].pc = "idle"
    /\ \E i \in requests :
         req' = [req EXCEPT ![r] =
                   [Idle EXCEPT !.pc = "received", !.endpoint = i.endpoint,
                                !.tool_name = i.tool_name,
                                !.content_type = i.content_type,
                                !.body = i.body]]
    /\ UNCHANGED <<TOOLS, storage>>

Handle(r) ==
    \/ HealthCheck(r)
    \/ ListAllTools(r)
    \/ GetToolMetadata(r)
    \/ CheckTool(r)
    \/ Normalize(r)
    \/ ProcessPart(r)
    \/ Execute(r)

-----------------------------------------------------------------------------
(* The service as shipped, answering one request *)

Init ==
    /\ TOOLS = RegisteredTools
    /\ req = [r \in Clients |-> Idle]
    /\ storage = EmptyDict

Next ==
    \/ Receive(1, AllRequests(TOOLS))
    \/ \E r \in Clients : Handle(r)

Spec == Init /\ [][Next]_vars

(* The service with a tool of each output type added to the registry *)

\* tool classes a developer may add to the TOOLS dictionary: the two
\* well-formed ones alone, or with one whose output_type is unrecognized or
\* whose descriptor lacks an attribute
AddedTools ==
    LET good == <<PluginTool("json"), PluginTool("file")>>
    IN  {good,
         Append(good, PluginTool("xml")),
         Append(good, [PluginTool("file") EXCEPT !.key = "plugin-bare",
                                                 !.name = "plugin-bare",
                                                 !.input_schema = EmptyDict]),
         Append(good, [PluginTool("json") EXCEPT !.key = "plugin-mute",
                                                 !.name = "plugin-mute",
                                                 !.description = ""]),
         Append(good, [PluginTool("json") EXCEPT !.key = "plugin-anon",
                                                 !.name = ""])}

\* the module-level TOOLS = {...} constructs every tool; the service starts
\* only if every construction succeeds
InitPlugin ==
    /\ \E added \in AddedTools : TOOLS = RegisteredTools \o added
    /\ \A i \in DOMAIN TOOLS : BaseTool_init_ok(TOOLS[i])
    /\ req = [r \in Clients |-> Idle]
    /\ storage = EmptyDict

SpecPlugin == InitPlugin /\ [][Next]_vars

(* The service as shipped, answering several clients at once *)

\* the client has its answer and may send another request
Finish(r) ==
    /\ req[r].pc = "done"
    /\ req' = [req EXCEPT ![r] = Idle]
    /\ UNCHANGED <<TOOLS, storage>>

ConcurrentRequests ==
    SystemRequests({"qr-generator", "no-such-tool"})
    \cup RunRequests({"qr-generator"},
                     {<<"application/json", "charset=utf-8">>},
                     {JsonBody([data |-> Lit("hello")])})
    \cup RunRequests({"image-converter"},
                     {<<"multipart/form-data", "boundary=x">>},
                     {MultipartBody(<<FilePart("image", <<"a", ".", "p", "n", "g">>,
                                               MAX_FILE_SIZE),
                                      FieldPart("target_format", Lit("png"))>>)})

NextConc ==
    \E r \in Clients :
        \/ Receive(r, ConcurrentRequests)
        \/ Handle(r)
        \/ Finish(r)

SpecConc == Init /\ [][NextConc]_vars

(* The service receiving uploads under every name of a small alphabet *)

MaxNameLen == 3

\* characters of original filenames: a word character, the dot, a blank and
\* the two separators
NameChars == {"a", ".", " ", "/", "\\"}

UploadNames == UNION {[1..k -> NameChars] : k \in 0..MaxNameLen}

UploadRequests ==
    SystemRequests({"image-converter", "no-such-tool"})
    \cup RunRequests({"image-converter", "no-such-tool"},
                     {<<"multipart/form-data", "boundary=x">>},
                     {MultipartBody(<<FilePart("image", n, MAX_FILE_SIZE)>>) :
                        n \in UploadNames})

NextUpload ==
    \/ Receive(1, UploadRequests)
    \/ \E r \in Clients : Handle(r)

SpecUpload == Init /\ [][NextUpload]_vars

-----------------------------------------------------------------------------
(* Properties *)

Done(r) == req[r].pc = "done"
IsRun(r) == req[r].endpoint = "run"
Registered(r) == \E i \in DOMAIN TOOLS : TOOLS[i].key = req[r].tool_name
ToolOf(r) == TOOLS[CHOOSE i \in DOMAIN TOOLS : TOOLS[i].key = req[r].tool_name]
DeclaresJson(r) == \E i \in DOMAIN req[r].content_type :
                        req[r].content_type[i] = "application/json"
DeclaresMultipart(r) == \E i \in DOMAIN req[r].content_type :
                            req[r].content_type[i] = "multipart/form-data"
\* tool.run was entered and returned a value
RunReturned(r) == req[r].runs = 1 /\ req[r].run_raised = NoException
\* tool.run was entered and raised
RunRaised(r) == req[r].runs = 1 /\ req[r].run_raised # NoException

\* C1: a run request or a descriptor request that names a tool absent from
\* the registry is answered with the not-found error, status 404, whatever
\* its body and its content type
C1_UnknownToolIs404 ==
    \A r \in Clients :
        Done(r) /\ req[r].endpoint \in {"run", "metadata"} /\ ~Registered(r)
        => /\ req[r].response.kind = "error"
           /\ req[r].response.status_code = 404
           /\ req[r].response.error = Msg("Tool '%s' not found", req[r].tool_name)
           /\ req[r].raised.class = "ToolNotFoundException"

C1_Witness ==
    \E r \in Clients :
        /\ Done(r) /\ IsRun(r) /\ ~Registered(r)
        /\ req[r].body.kind = "multipart" /\ req[r].body.parts # <<>>
        /\ req[r].content_type = <<"text/plain">>
        /\ req[r].response.status_code = 404

\* the multipart branch has bound every part and tool.run is next
Normalized(r) ==
    /\ req[r].pc = "execute" /\ IsRun(r)
    /\ DeclaresMultipart(r) /\ ~DeclaresJson(r)
    /\ req[r].body.kind = "multipart"

PartsOf(r) == req[r].body.parts
KeyOfPart(p) == IF p.is_file THEN p.name \o "_file_path" ELSE p.name
\* what a part stands for: the path the file service returns for the upload,
\* saved under the tool's name, or the literal value of the field
ValueOfPart(r, p) ==
    IF p.is_file
    THEN save_uploaded_file([size |-> p.size, by |-> r],
                            IF p.filename = <<>>
                            THEN <<"u", "p", "l", "o", "a", "d", "e", "d", "_",
                                   "f", "i", "l", "e">>
                            ELSE p.filename,
                            req[r].tool_name).path
    ELSE p.value

\* C2 as stated: after normalization every file part p is bound under
\* p_file_path to the path saved for it, every other part q under q to its
\* value, and no part's binding replaces another's
C2_EveryPartBound ==
    \A r \in Clients :
        Normalized(r)
        => \A i \in DOMAIN PartsOf(r) :
              /\ KeyOfPart(PartsOf(r)[i]) \in DOMAIN req[r].input_data
              /\ req[r].input_data[KeyOfPart(PartsOf(r)[i])]
                    = ValueOfPart(r, PartsOf(r)[i])

DistinctBindings(parts) ==
    \A i, j \in DOMAIN parts :
        i # j => /\ parts[i].name # parts[j].name
                 /\ KeyOfPart(parts[i]) # KeyOfPart(parts[j])

\* the key a part's binding ends under: file_file_path moves to
\* image_file_path when no part is bound under image_file_path
FinalKey(parts, p) ==
    IF /\ KeyOfPart(p) = "file_file_path"
       /\ \A j \in DOMAIN parts : KeyOfPart(parts[j]) # "image_file_path"
    THEN "image_file_path"
    ELSE KeyOfPart(p)

\* C2 amended: when the parts have pairwise distinct names and binding keys,
\* every part is bound under its key (file_file_path moved to
\* image_file_path when nothing else is bound there) to the saved path or
\* the literal value, and the arguments hold no other key
C2_DistinctPartsBound ==
    \A r \in Clients :
        Normalized(r) /\ DistinctBindings(PartsOf(r))
        => /\ \A i \in DOMAIN PartsOf(r) :
                /\ FinalKey(PartsOf(r), PartsOf(r)[i]) \in DOMAIN req[r].input_data
                /\ req[r].input_data[FinalKey(PartsOf(r), PartsOf(r)[i])]
                      = ValueOfPart(r, PartsOf(r)[i])
                /\ PartsOf(r)[i].is_file
                      => /\ ValueOfPart(r, PartsOf(r)[i]).sub = req[r].tool_name
                         /\ ValueOfPart(r, PartsOf(r)[i]) \in DOMAIN storage
           /\ DOMAIN req[r].input_data
                = {FinalKey(PartsOf(r), PartsOf(r)[i]) : i \in DOMAIN PartsOf(r)}

C2_Witness ==
    \E r \in Clients :
        /\ Normalized(r) /\ DistinctBindings(PartsOf(r))
        /\ Len(PartsOf(r)) = 2
        /\ PartsOf(r)[1].is_file /\ PartsOf(r)[1].name = "image"
        /\ ~PartsOf(r)[2].is_file
        /\ DOMAIN req[r].input_data = {"image_file_path", PartsOf(r)[2].name}

\* C3 as stated: with a file part named file and no part named image,
\* whatever the other parts, image_file_path holds the path of the file
\* upload and file_file_path is gone
C3_FileRenamedAlways ==
    \A r \in Clients :
        /\ Normalized(r)
        /\ \E i \in DOMAIN PartsOf(r) :
                PartsOf(r)[i].is_file /\ PartsOf(r)[i].name = "file"
        /\ \A i \in DOMAIN PartsOf(r) : PartsOf(r)[i].name # "image"
        => /\ "image_file_path" \in DOMAIN req[r].input_data
           /\ \E i \in DOMAIN PartsOf(r) :
                /\ PartsOf(r)[i].is_file /\ PartsOf(r)[i].name = "file"
                /\ req[r].input_data["image_file_path"]
                      = ValueOfPart(r, PartsOf(r)[i])
           /\ "file_file_path" \notin DOMAIN req[r].input_data

NamedParts(parts, name) == {i \in DOMAIN parts : parts[i].name = name}
NamedFields(parts, name) ==
    {i \in DOMAIN parts : parts[i].name = name /\ ~parts[i].is_file}
MinOf(S) == CHOOSE m \in S : \A n \in S : m <= n

\* the other parts leave the file upload alone: the last part named file is
\* an upload, no field is named image_file_path, and a field named
\* file_file_path occurs only if one occurs before the first part named file
FileUploadStands(parts) ==
    /\ NamedParts(parts, "file") # {}
    /\ parts[MaxOf(NamedParts(parts, "file"))].is_file
    /\ NamedParts(parts, "image") = {}
    /\ NamedFields(parts, "image_file_path") = {}
    /\ \/ NamedFields(parts, "file_file_path") = {}
       \/ MinOf(NamedFields(parts, "file_file_path"))
            < MinOf(NamedParts(parts, "file"))

\* C3 amended: under FileUploadStands, image_file_path holds the path of the
\* last upload named file and file_file_path is gone
C3_FileRenamed ==
    \A r \in Clients :
        Normalized(r) /\ FileUploadStands(PartsOf(r))
        => /\ "image_file_path" \in DOMAIN req[r].input_data
           /\ req[r].input_data["image_file_path"]
                = ValueOfPart(r, PartsOf(r)[MaxOf(NamedParts(PartsOf(r), "file"))])
           /\ "file_file_path" \notin DOMAIN req[r].input_data

C3_Witness ==
    \E r \in Clients :
        /\ Normalized(r) /\ FileUploadStands(PartsOf(r))
        /\ Len(PartsOf(r)) = 2
        /\ PartsOf(r)[1].name = "file" /\ PartsOf(r)[2].name = "target_format"
        /\ DOMAIN req[r].input_data = {"image_file_path", "target_format"}
        /\ req[r].input_data["image_file_path"] \in DOMAIN storage

\* C4: under the JSON content type a body that is a JSON object reaches
\* tool.run as it is, no key added, removed or renamed (the call itself
\* fails only on a key named self); any other body is answered 400 and the
\* tool is not run
C4_JsonVerbatim ==
    \A r \in Clients :
        IsRun(r) /\ Registered(r) /\ DeclaresJson(r)
        => /\ req[r].body.kind = "json" /\ req[r].pc \in {"execute", "done"}
                => /\ req[r].input_data = req[r].body.doc
                   /\ req[r].runs = 1 => req[r].run_kwargs = req[r].body.doc
                   /\ Done(r) /\ req[r].runs = 0
                        => "self" \in DOMAIN req[r].body.doc
           /\ req[r].body.kind # "json"
                => /\ req[r].pc \in {"received", "normalize", "done"}
                   /\ req[r].runs = 0
                   /\ Done(r) => /\ req[r].response.kind = "error"
                                 /\ req[r].response.status_code = 400

C4_Witness ==
    \E r \in Clients :
        /\ Done(r) /\ IsRun(r) /\ DeclaresJson(r)
        /\ req[r].tool_name = "image-converter"
        /\ DOMAIN req[r].body.doc = {"file_file_path", "target_format"}
        /\ req[r].runs = 1
        /\ req[r].run_kwargs = req[r].body.doc

\* C5: a run request to a registered tool that declares neither JSON nor
\* multipart, or no content type, is answered 400 with the message naming
\* the two encodings; the tool is not run and no upload is saved
C5_OtherEncodingIs400 ==
    \A r \in Clients :
        IsRun(r) /\ Registered(r) /\ ~DeclaresJson(r) /\ ~DeclaresMultipart(r)
        => /\ req[r].pc \in {"received", "normalize", "done"}
           /\ req[r].runs = 0
           /\ req[r].saves = 0
           /\ \A path \in DOMAIN storage : storage[path].by # r
           /\ Done(r)
                => req[r].response =
                     ErrorResponse(
                       Msg("Content-Type must be application/json or multipart/form-data",
                           ""), 400)

C5_Witness ==
    \E r \in Clients :
        /\ Done(r) /\ IsRun(r) /\ Registered(r)
        /\ req[r].content_type = <<>>
        /\ req[r].body.kind = "json" /\ "data" \in DOMAIN req[r].body.doc
        /\ req[r].response.status_code = 400

ShapeMismatch(r) ==
    \/ ToolOf(r).output_type = "file" /\ req[r].result.shape # "pair"
    \/ ToolOf(r).output_type = "json" /\ req[r].result.shape = "pair"

\* C7: a result whose shape does not match the tool's output type, in either
\* direction, is answered with a 500 error and is never wrapped as data
C7_MismatchIs500 ==
    \A r \in Clients :
        Done(r) /\ IsRun(r) /\ RunReturned(r) /\ ShapeMismatch(r)
        => /\ req[r].response.kind = "error"
           /\ req[r].response.status_code = 500

\* the status each kind of error raised in tool.run is to be answered with
StatusOfKind(class) ==
    CASE class = "ToolNotFoundException" -> 404
      [] class = "InvalidInputException" -> 400
      [] class = "FileProcessingException" -> 400
      [] OTHER -> 500

\* C8: an error raised inside tool.run is answered with the status of its
\* kind (NotFound 404, InvalidInput 400, FileProcessing 400,
\* ExecutionFailure 500) and anything else with 500 and a generic message
C8_StatusByKind ==
    \A r \in Clients :
        Done(r) /\ IsRun(r) /\ RunRaised(r)
        /\ req[r].run_raised.class # "ToolValidationException"
        => /\ req[r].response.kind = "error"
           /\ req[r].response.status_code = StatusOfKind(req[r].run_raised.class)
           /\ req[r].run_raised.class
                \notin ToolExecutionSubclasses \cup {"ToolExecutionException"}
                => req[r].response.error = Msg("Tool execution failed", "")

\* C9: two requests that fail inside the same tool with an execution
\* failure get the same response, whatever the cause of each
C9_SameBodyForAnyCause ==
    \A r1, r2 \in Clients :
        /\ Done(r1) /\ IsRun(r1) /\ RunRaised(r1)
        /\ Done(r2) /\ IsRun(r2) /\ RunRaised(r2)
        /\ req[r1].run_raised.class = "ToolExecutionException"
        /\ req[r2].run_raised.class = "ToolExecutionException"
        /\ req[r1].tool_name = req[r2].tool_name
        => req[r1].response = req[r2].response

\* C10: when the normalized arguments lack a field the tool requires, the
\* request is answered 400 as invalid input
C10_MissingFieldIs400 ==
    \A r \in Clients :
        /\ Done(r) /\ IsRun(r) /\ req[r].runs = 1
        /\ ToolOf(r).input_schema.required \ DOMAIN req[r].run_kwargs # {}
        => /\ req[r].response.status_code = 400
           /\ req[r].run_raised.class = "InvalidInputException"

\* C11: the files two requests in flight have stored (uploads saved, outputs
\* written at the allocated path) never share a path, and a file a request
\* stored still holds the bytes that request wrote
C11_DistinctPaths ==
    \A r1, r2 \in Clients :
        r1 # r2
        => /\ req[r1].stored \cap req[r2].stored = {}
           /\ \A p \in req[r1].stored : storage[p].by = r1

\* the sizes around the maximum, and two far from it
SizesAroundMax ==
    {0, 1, MAX_FILE_SIZE - 1, MAX_FILE_SIZE, MAX_FILE_SIZE + 1, 2 * MAX_FILE_SIZE}

\* C12: with a valid filename, save_uploaded_file succeeds and returns a
\* path exactly when the content is at most MAX_FILE_SIZE long, and fails
\* with FileProcessingException otherwise; a step of the upload loop on
\* such a part writes the file when the size is within the maximum and
\* writes nothing when it is one byte over
C12_SaveIffWithinMax ==
    [][\A r \in Clients :
          /\ \A z \in SizesAroundMax :
               LET saved == save_uploaded_file([size |-> z, by |-> r],
                                               <<"a", ".", "p", "n", "g">>,
                                               "image-converter")
               IN  /\ z <= MAX_FILE_SIZE
                        => saved.exc = NoException /\ saved.path # NoPath
                   /\ z > MAX_FILE_SIZE
                        => saved.exc.class = "FileProcessingException"
                           /\ saved.path = NoPath
          /\ req[r].pc = "parts" /\ req'[r] # req[r]
             => LET part == FormItems(req[r].body.parts)[req[r].idx]
                    name == IF part.filename = <<>>
                            THEN <<"u", "p", "l", "o", "a", "d", "e", "d", "_",
                                   "f", "i", "l", "e">>
                            ELSE part.filename
                IN  part.is_file /\ clean_filename(name).exc = NoException
                    => IF part.size <= MAX_FILE_SIZE
                       THEN /\ req'[r].raised = NoException
                            /\ \E p \in DOMAIN storage' :
                                 /\ storage'[p] = [size |-> part.size, by |-> r]
                                 /\ req'[r].stored = req[r].stored \cup {p}
                       ELSE /\ req'[r].pc = "done"
                            /\ req'[r].response.status_code = 400
                            /\ req'[r].response.error
                                 = Msg("File size exceeds maximum of %sMB", "10.0")
                            /\ storage' = storage
      ]_vars

\* an upload of exactly MAX_FILE_SIZE bytes has been saved
C12_Witness ==
    \E r \in Clients :
        /\ req[r].pc \in {"parts", "execute"}
        /\ \E p \in req[r].stored :
             p \in DOMAIN storage /\ storage[p].size = MAX_FILE_SIZE

\* the keys of the TOOLS dictionary
RegisteredKeys == {TOOLS[i].key : i \in DOMAIN TOOLS}

\* names that are no key of the registry: near misses of the keys
OtherNames ==
    {"no-such-tool", "", "qr_generator", "QR-GENERATOR", "image", "plugin-file"}
        \ RegisteredKeys

\* C13: for every key of the registry tool_exists is true and get_tool
\* returns a tool whose metadata carries that key as its name, also as the
\* descriptor endpoint answers it; for every other name tool_exists is false
C13_RegisteredNamesResolve ==
    /\ \A k \in RegisteredKeys :
         /\ tool_exists(TOOLS, k)
         /\ get_tool(TOOLS, k).exc = NoException
         /\ get_metadata(get_tool(TOOLS, k).tool).name = k
    /\ \A n \in OtherNames : ~tool_exists(TOOLS, n)
    /\ \A r \in Clients :
         Done(r) /\ req[r].endpoint = "metadata"
         => IF req[r].tool_name \in RegisteredKeys
            THEN /\ req[r].response.kind = "doc"
                 /\ req[r].response.doc.name = req[r].tool_name
            ELSE req[r].response.kind = "error"

\* the descriptor of a tool that is not the first of the registry was served
C13_Witness ==
    \E r \in Clients :
        /\ Done(r) /\ req[r].endpoint = "metadata"
        /\ req[r].tool_name = "image-compressor"
        /\ req[r].response.doc.name = "image-compressor"

\* C14: get_tool applied to a name that is no key of the registry (the name
\* an arriving request carries) fails with ToolNotFoundException, the class
\* answered with 404
C14_GetAbsentIsNotFound ==
    \A r \in Clients :
        /\ req[r].endpoint \in {"run", "metadata"}
        /\ req[r].tool_name \notin RegisteredKeys
        => /\ get_tool(TOOLS, req[r].tool_name).exc.class = "ToolNotFoundException"
           /\ HandleException(get_tool(TOOLS, req[r].tool_name).exc).status_code = 404

\* the descriptors of the registry at startup, in registration order
StartupDescriptors ==
    <<get_metadata(QRGeneratorTool), get_metadata(ImageConverterTool),
      get_metadata(ImageCompressorTool)>>

\* C15: whatever requests have been served and are in flight, the registry
\* is the one of startup, every listing answered holds the startup
\* descriptors in registration order, and every descriptor answered for a
\* name is the startup descriptor of that name
C15_RegistryConstant ==
    /\ TOOLS = RegisteredTools
    /\ list_tools(TOOLS) = StartupDescriptors
    /\ \A r \in Clients :
         Done(r)
         => /\ req[r].endpoint = "list"
                => /\ req[r].response.doc.tools = StartupDescriptors
                   /\ req[r].response.doc.count = 3
            /\ req[r].endpoint = "metadata" /\ req[r].response.kind = "doc"
                => \E i \in DOMAIN StartupDescriptors :
                     /\ StartupDescriptors[i].name = req[r].tool_name
                     /\ req[r].response.doc = StartupDescriptors[i]

\* a listing answered while another request has failed inside a tool and
\* files written by earlier runs are in storage
C15_Witness ==
    \E r1, r2 \in Clients :
        /\ r1 # r2
        /\ Done(r1) /\ req[r1].endpoint = "list"
        /\ req[r1].response.doc.tools = StartupDescriptors
        /\ Done(r2) /\ IsRun(r2) /\ RunRaised(r2)
        /\ storage # EmptyDict

\* C16: every tool of the registry has a non-empty name, description,
\* version and input schema and an output type that is json or file, and no
\* run request is answered by the branch for an unknown output type
C16_RegisteredToolsComplete ==
    /\ \A i \in DOMAIN TOOLS :
         /\ TOOLS[i].name # "" /\ TOOLS[i].description # ""
         /\ TOOLS[i].version # "" /\ TOOLS[i].input_schema # <<>>
         /\ TOOLS[i].output_type \in {"json", "file"}
    /\ \A r \in Clients :
         Done(r) /\ IsRun(r)
         => req[r].response.error # Msg("Unknown output type", "")

\* the result of an added tool went through the branch on its output type
C16_Witness ==
    \E r \in Clients :
        /\ Done(r) /\ IsRun(r) /\ RunReturned(r)
        /\ ToolOf(r).class = "BaseTool"
        /\ req[r].response.kind \in {"json", "file"}

\* the order of the steps of a request
StepRank(pc) ==
    CASE pc = "idle" -> 0 [] pc = "received" -> 1 [] pc = "normalize" -> 2
      [] pc = "parts" -> 3 [] pc = "execute" -> 4 [] pc = "done" -> 5

\* C17: in every step of a run request tool.run is entered at most once in
\* all, only from the step that follows the existence check and the
\* normalization, on a registered tool and with exactly the normalized
\* arguments; a step that fails ends the request with an error response;
\* no step of an answered request is taken again
C17_RunAtMostOnce ==
    [][\A r \in Clients :
          /\ req'[r].runs \in {req[r].runs, req[r].runs + 1}
          /\ req'[r].runs <= 1
          /\ req'[r].runs = req[r].runs + 1
               => /\ req[r].pc = "execute" /\ IsRun(r)
                  /\ req[r].tool_name \in RegisteredKeys
                  /\ req[r].raised = NoException
                  /\ req'[r].run_kwargs = req[r].input_data
          /\ req'[r].raised # NoException \/ req'[r].run_raised # NoException
               => /\ req'[r].pc = "done"
                  /\ req'[r].response.kind = "error"
                  /\ req'[r].response.status_code >= 400
          /\ StepRank(req'[r].pc) >= StepRank(req[r].pc)
          /\ req[r].pc = "done" => req'[r] = req[r]
      ]_vars

\* tool.run returned, its result was refused, and the request ended there
C17_Witness ==
    \E r \in Clients :
        /\ Done(r) /\ IsRun(r) /\ RunReturned(r)
        /\ req[r].runs = 1
        /\ req[r].response.kind = "error"

\* what the table gives for each display name: its media type and the
\* lower-cased final extension
ExpectedMedia ==
    {[n |-> <<"o", ".", "p", "n", "g">>, t |-> "image/png",
      e |-> <<".", "p", "n", "g">>],
     [n |-> <<"A", ".", "P", "N", "G">>, t |-> "image/png",
      e |-> <<".", "p", "n", "g">>],
     [n |-> <<"q", "r", "_", "c", "o", "d", "e", "_", "1", ".", "p", "n", "g">>,
      t |-> "image/png", e |-> <<".", "p", "n", "g">>],
     [n |-> <<"q", "r", "_", "c", "o", "d", "e", "_", "2", ".", "p", "n", "g">>,
      t |-> "image/png", e |-> <<".", "p", "n", "g">>],
     [n |-> <<"a", ".", "j", "p", "g">>, t |-> "image/jpeg",
      e |-> <<".", "j", "p", "g">>],
     [n |-> <<"a", ".", "J", "p", "E", "g">>, t |-> "image/jpeg",
      e |-> <<".", "j", "p", "e", "g">>],
     [n |-> <<"a", ".", "g", "i", "f">>, t |-> "image/gif",
      e |-> <<".", "g", "i", "f">>],
     [n |-> <<"a", ".", "w", "e", "b", "p">>, t |-> "image/webp",
      e |-> <<".", "w", "e", "b", "p">>],
     [n |-> <<"a", ".", "b", "m", "p">>, t |-> "image/bmp",
      e |-> <<".", "b", "m", "p">>],
     [n |-> <<"a", ".", "p", "d", "f">>, t |-> "application/pdf",
      e |-> <<".", "p", "d", "f">>],
     [n |-> <<"a", ".", "j", "s", "o", "n">>, t |-> "application/json",
      e |-> <<".", "j", "s", "o", "n">>],
     [n |-> <<"a", ".", "t", "x", "t">>, t |-> "text/plain",
      e |-> <<".", "t", "x", "t">>],
     [n |-> <<"a", ".", "c", "s", "v">>, t |-> "text/csv",
      e |-> <<".", "c", "s", "v">>],
     [n |-> <<"a", ".", "z", "i", "p">>, t |-> "application/zip",
      e |-> <<".", "z", "i", "p">>],
     [n |-> <<"a", ".", "z", "i", "p", ".", "t", "x", "t">>, t |-> "text/plain",
      e |-> <<".", "t", "x", "t">>],
     [n |-> <<"a", ".", "p", "n", "g", ".", "g", "z">>,
      t |-> "application/octet-stream", e |-> <<".", "g", "z">>],
     [n |-> <<"a", ".", "e", "x", "e">>, t |-> "application/octet-stream",
      e |-> <<".", "e", "x", "e">>],
     [n |-> <<"p", "n", "g">>, t |-> "application/octet-stream", e |-> <<>>],
     [n |-> <<".", "p", "n", "g">>, t |-> "application/octet-stream", e |-> <<>>],
     [n |-> <<"a", ".">>, t |-> "application/octet-stream", e |-> <<>>],
     [n |-> <<"d", ".", "p", "n", "g", "/", "a">>,
      t |-> "application/octet-stream", e |-> <<>>]}

\* C18: every file response carries the media type of the table for the
\* final extension of its display name, compared without regard to case,
\* and application/octet-stream for any other extension or none; the
\* extension it exposes is that extension lower-cased and its filename is
\* the display name the tool returned
C18_MediaTypeByExtension ==
    \A r \in Clients :
        Done(r) /\ req[r].response.kind = "file"
        => /\ req[r].response.filename = req[r].result.filename
           /\ req[r].response.path = req[r].result.path
           /\ \E x \in ExpectedMedia :
                /\ x.n = req[r].response.filename
                /\ x.t = req[r].response.media_type
                /\ x.e = req[r].response.extension

\* a display name whose extension is written in upper case was answered
C18_Witness ==
    \E r \in Clients :
        /\ Done(r) /\ req[r].response.kind = "file"
        /\ req[r].response.filename = <<"A", ".", "P", "N", "G">>
        /\ req[r].response.media_type = "image/png"

\* the upload of a form item is refused: its content is over the maximum
\* size, or its name has no valid character
UploadRefused(p) ==
    /\ p.is_file
    /\ \/ p.size > MAX_FILE_SIZE
       \/ clean_filename(IF p.filename = <<>>
                         THEN <<"u", "p", "l", "o", "a", "d", "e", "d", "_",
                                "f", "i", "l", "e">>
                         ELSE p.filename).exc # NoException

RefusalMessage(p) ==
    IF p.size > MAX_FILE_SIZE
    THEN Msg("File size exceeds maximum of %sMB", "10.0")
    ELSE Msg("Filename contains no valid characters", "")

\* C19: when the upload of some item of a multipart request is refused, the
\* request is answered 400 with the message of the first refusal, the items
\* after it are not processed, and tool.run is not entered
C19_RefusedUploadIs400 ==
    \A r \in Clients :
        /\ Done(r) /\ IsRun(r) /\ Registered(r)
        /\ DeclaresMultipart(r) /\ ~DeclaresJson(r)
        /\ req[r].body.kind = "multipart"
        => LET items == FormItems(req[r].body.parts)
               refused == {i \in DOMAIN items : UploadRefused(items[i])}
           IN  refused # {}
               => LET k == MinOf(refused) IN
                  /\ req[r].response.kind = "error"
                  /\ req[r].response.status_code = 400
                  /\ req[r].response.error = RefusalMessage(items[k])
                  /\ req[r].runs = 0
                  /\ Len(req[r].bound) = k - 1
                  /\ req[r].saves
                       = Cardinality({i \in 1..k : items[i].is_file})
                  /\ Cardinality(DOMAIN storage)
                       <= Cardinality({i \in 1..(k - 1) : items[i].is_file})

\* the first of two items was refused and the second was left alone
C19_Witness ==
    \E r \in Clients :
        /\ Done(r) /\ IsRun(r) /\ Registered(r)
        /\ DeclaresMultipart(r) /\ ~DeclaresJson(r)
        /\ req[r].body.kind = "multipart"
        /\ Len(FormItems(req[r].body.parts)) = 2
        /\ UploadRefused(FormItems(req[r].body.parts)[1])
        /\ FormItems(req[r].body.parts)[2].is_file
        /\ req[r].bound = <<>> /\ req[r].saves = 1
        /\ req[r].response.status_code = 400

\* the paths the upload loop of a request has bound
UploadsOf(r) ==
    {req[r].bound[i].value : i \in {j \in DOMAIN req[r].bound :
                                      ~IsLit(req[r].bound[j].value)}}

\* C20: a run request that names no registered tool, or declares neither
\* JSON nor multipart, never calls save_uploaded_file and leaves storage as
\* it was; every upload stored lies under the name of a registered tool,
\* the one the request names; a refused save writes no file
C20_StorageUntouched ==
    \A r \in Clients :
        IsRun(r)
        => /\ ~Registered(r) \/ (~DeclaresJson(r) /\ ~DeclaresMultipart(r))
                => /\ req[r].saves = 0 /\ req[r].stored = {}
                   /\ storage = EmptyDict
           /\ \A p \in UploadsOf(r) :
                /\ p \in DOMAIN storage
                /\ p.sub = req[r].tool_name
                /\ p.sub \in RegisteredKeys
           /\ req[r].pc \in {"parts", "done"} /\ req[r].runs = 0
                => DOMAIN storage = UploadsOf(r)

\* a request for an unknown tool that carried an upload was answered and
\* nothing was stored
C20_Witness ==
    \E r \in Clients :
        /\ Done(r) /\ IsRun(r) /\ ~Registered(r)
        /\ DeclaresMultipart(r) /\ req[r].body.kind = "multipart"
        /\ \E i \in DOMAIN req[r].body.parts :
             /\ req[r].body.parts[i].is_file
             /\ req[r].body.parts[i].size <= MAX_FILE_SIZE
             /\ req[r].body.parts[i].filename = <<"a", ".", "p", "n", "g">>
        /\ storage = EmptyDict

\* C21: for the original name of every upload handed to save_uploaded_file,
\* clean_filename either fails with FileProcessingException or returns a
\* non-empty name of word characters, '.', '-' and '_' only, free of
\* separators and different from '..', and cleaning that name again returns
\* it unchanged
C21_CleanNameSafe ==
    \A r \in Clients :
        req[r].saves >= 1
        => \A i \in DOMAIN req[r].body.parts :
             req[r].body.parts[i].is_file
             => LET given == req[r].body.parts[i].filename
                    c == clean_filename(
                           IF given = <<>>
                           THEN <<"u", "p", "l", "o", "a", "d", "e", "d", "_",
                                  "f", "i", "l", "e">>
                           ELSE given)
                IN  IF c.exc # NoException
                    THEN c.exc.class = "FileProcessingException"
                    ELSE /\ c.name # <<>>
                         /\ \A j \in DOMAIN c.name :
                              c.name[j] \in WordChars \cup {".", "-"}
                         /\ c.name # <<".", ".">>
                         /\ clean_filename(c.name).exc = NoException
                         /\ clean_filename(c.name).name = c.name

=============================================================================
